---- MODULE Spec2Model ----
(***************************************************************************)
(* The deposit pipeline of the DepositSigner component, in its two         *)
(* versions: src/unnamed/part_001 (file upload + duration, handleDeposit)  *)
(* and src/src/app/page.tsx (handleDeposit and initializeConfig).          *)
(*                                                                         *)
(* A run of an async handler is a record in `runs`; its pc names the await *)
(* it is suspended at.  One action is the continuation that runs when that *)
(* await settles: it takes the settlement (a value or a thrown value) as   *)
(* its input and executes the synchronous code up to the next await, the   *)
(* catch and finally blocks included.                                      *)
(*                                                                         *)
(* The status strings are the source's, with the two emoji written in      *)
(* ASCII: "[x] " for the cross mark and "[v] " for the check mark.         *)
(***************************************************************************)
EXTENDS Integers, Sequences, FiniteSets, TLC

VARIABLES
    component,      \* which version of DepositSigner is mounted
    wallet,         \* useWallet(): publicKey and signTransaction
    file,           \* useState<File | null>: TRUE when a file is selected
    durationDays,   \* useState<number>(7)
    status,         \* useState("")
    isLoading,      \* useState(false)
    runs,           \* the handler runs in flight, in start order
    ended,          \* <<what the last run that ended left behind>>, or <<>>
    blockhashes     \* number of blockhashes the RPC node has handed out

vars == <<component, wallet, file, durationDays, status, isLoading, runs, ended,
          blockhashes>>

\* Handler runs in flight at once.
MaxRuns == 2

\* Blockhashes the RPC node hands out in one session.
MaxBlockhashes == 2

-----------------------------------------------------------------------------
(* Values at the boundary                                                  *)

NoKey == "null"
WalletKey == "WalletPubkey"

\* useWallet(): publicKey is null until connected; signTransaction is
\* undefined when the adapter cannot sign.
Wallets == [publicKey : {NoKey, WalletKey}, signTransaction : BOOLEAN]

\* A thrown JavaScript value: an Error with a message, or any other value
\* (message then holds its String() form).
Thrown == { [isError |-> TRUE, message |-> "boom"],
            [isError |-> FALSE, message |-> "boom"] }

JsonSyntaxError == [isError |-> TRUE, message |-> "Unexpected token < in JSON"]
InvalidPublicKey == [isError |-> TRUE, message |-> "Invalid public key input"]
NotAFunction == [isError |-> TRUE, message |-> "wallet.signTransaction is not a function"]
SerializeError == [isError |-> TRUE, message |-> "Signature verification failed"]

\* Nothing was thrown.
NoThrow == [isError |-> FALSE, message |-> ""]

\* connection.confirmTransaction gives up: with a blockhash strategy once the
\* last valid block height has passed, with a bare signature after a timeout.
ExpiredError(h, signature) ==
    IF h = "initializeConfig"
    THEN [isError |-> TRUE, message |-> "Transaction was not confirmed in 30.00 seconds."]
    ELSE [isError |-> TRUE,
          message |-> "Signature " \o signature \o " has expired: block height exceeded."]

\* Address strings as the backend sends them; BadAddr is not a public key.
BadAddr == "not-an-address"
ProgramIds == {"Prog1", "Prog2", BadAddr}

\* Base64 text, one element per character; "*" is outside the alphabet.
Base64Alphabet == {"Q", "U"}

Key(pk) == [pubkey |-> pk, isSigner |-> TRUE, isWritable |-> TRUE]

\* The instruction descriptors the backend is drawn to return: two well-formed
\* ones, and one each with a bad program id, a bad account and bad base64.
D1 == [programId |-> "Prog1", keys |-> <<Key("Acct1")>>, data |-> <<"Q", "U">>]
D2 == [programId |-> "Prog2", keys |-> <<>>, data |-> <<"U">>]
DBadProgram == [programId |-> BadAddr, keys |-> <<>>, data |-> <<"Q">>]
DBadAccount == [programId |-> "Prog1", keys |-> <<Key(BadAddr)>>, data |-> <<"Q">>]
DBadData == [programId |-> "Prog1", keys |-> <<>>, data |-> <<"Q", "*", "U">>]

Descriptors == {D1, D2, DBadProgram, DBadAccount, DBadData}

InstructionLists ==
    {<<>>} \cup { <<d>> : d \in Descriptors } \cup { <<D1, D2>>, <<D2, D1>> }

\* A response body: valid is FALSE when it is not JSON; error is "" when the
\* field is absent or falsy; hasInstructions is FALSE when the field is absent.
Body(valid, error, has, ins) ==
    [valid |-> valid, error |-> error, hasInstructions |-> has, instructions |-> ins]

NoBody == Body(FALSE, "", FALSE, <<>>)

ErrorBodies == { NoBody, Body(TRUE, "", FALSE, <<>>), Body(TRUE, "quota exceeded", FALSE, <<>>) }

OkBodies == { NoBody, Body(TRUE, "", FALSE, <<>>) }
              \cup { Body(TRUE, "", TRUE, ins) : ins \in InstructionLists }

Responses == { [ok |-> FALSE, body |-> b] : b \in ErrorBodies }
             \cup { [ok |-> TRUE, body |-> b] : b \in OkBodies }

NoResponse == [ok |-> FALSE, body |-> NoBody]

Signatures == {"5igA"}

\* The value.err of a resolved confirmTransaction: "" is null.
ConfirmErrs == {"", "InstructionError"}

NoTx == [instructions |-> <<>>, recentBlockhash |-> 0, feePayer |-> NoKey]

-----------------------------------------------------------------------------
(* Pure helpers                                                            *)

\* String.prototype.includes
Includes(s, sub) ==
    \E i \in 1..(Len(s) - Len(sub) + 1) : SubSeq(s, i, i + Len(sub) - 1) = sub

\* new PublicKey(str) throws on a string that is no address.
IsAddress(str) == str # BadAddr
PublicKey(str) == [base58 |-> str]

\* Buffer.from(str, "base64"): characters outside the alphabet are skipped.
BufferFromBase64(str) == SelectSeq(str, LAMBDA c : c \in Base64Alphabet)

\* keys.map(key => ({pubkey: new PublicKey(key.pubkey), isSigner, isWritable}))
RECURSIVE MapKeys(_)
MapKeys(keys) ==
    IF keys = <<>> THEN <<>>
    ELSE <<[pubkey |-> PublicKey(Head(keys).pubkey),
            isSigner |-> Head(keys).isSigner,
            isWritable |-> Head(keys).isWritable]>> \o MapKeys(Tail(keys))

\* new TransactionInstruction({programId, keys, data}) of one descriptor
TransactionInstruction(d) ==
    [programId |-> PublicKey(d.programId),
     keys |-> MapKeys(d.keys),
     data |-> BufferFromBase64(d.data)]

\* The last descriptor taken in place of the first.
DepositDescriptor_last(instructions) == instructions[Len(instructions)]

\* The descriptor the transaction is built from: instructions[0].
DepositDescriptor(instructions) == instructions[1]

\* Building the instruction throws: instructions[0] is undefined, or one of
\* the new PublicKey(...) calls rejects its argument.
BuildThrows(instructions) ==
    \/ Len(instructions) = 0
    \/ ~IsAddress(DepositDescriptor(instructions).programId)
    \/ \E i \in 1..Len(DepositDescriptor(instructions).keys) :
           ~IsAddress(DepositDescriptor(instructions).keys[i].pubkey)

BuildError(instructions) ==
    IF Len(instructions) = 0
    THEN [isError |-> TRUE, message |-> "Cannot read properties of undefined"]
    ELSE InvalidPublicKey

\* A transaction that keeps the blockhash of the first one ever built.
Transaction_cachedBlockhash(depositIx, blockhash, feePayer) ==
    [instructions |-> <<depositIx>>,
     recentBlockhash |-> 1,
     feePayer |-> feePayer]

\* tx = new Transaction(); recentBlockhash, feePayer, tx.add(depositIx)
Transaction(depositIx, blockhash, feePayer) ==
    [instructions |-> <<depositIx>>,
     recentBlockhash |-> blockhash,
     feePayer |-> feePayer]

\* How the instruction fetch ended once the body of a success response is
\* read: with instructions ("ok") or without any ("empty").
FetchOutcome(body) ==
    IF body.hasInstructions /\ Len(body.instructions) > 0 THEN "ok" ELSE "empty"

\* The empty check without its length test.
EmptyInstructions_lengthUnchecked(body) == ~body.hasInstructions

\* if (!instructions || instructions.length === 0)
EmptyInstructions(body) ==
    ~body.hasInstructions \/ Len(body.instructions) = 0

-----------------------------------------------------------------------------
(* Status texts                                                            *)

\* part_001 handleDeposit, catch: err instanceof Error ? err.message : "Unknown error"
handleDeposit_catch(err) ==
    "[x] Failed: " \o (IF err.isError THEN err.message ELSE "Unknown error")

\* The same catch with the blockhash pattern tried before the simulation one.
page_handleDeposit_catch_blockhashFirst(err) ==
    "[x] Failed: " \o
        (IF ~err.isError THEN "Unknown error"
         ELSE IF Includes(err.message, "Blockhash not found")
              THEN "Transaction expired. Please try again."
         ELSE IF Includes(err.message, "Transaction simulation failed")
              THEN "Transaction simulation failed. Check program logs for details."
         ELSE IF Includes(err.message, "Insufficient funds")
              THEN "Insufficient SOL balance for transaction."
         ELSE err.message)

\* page.tsx handleDeposit, catch: the message is rewritten by first match.
page_handleDeposit_catch(err) ==
    "[x] Failed: " \o
        (IF ~err.isError THEN "Unknown error"
         ELSE IF Includes(err.message, "Transaction simulation failed")
              THEN "Transaction simulation failed. Check program logs for details."
         ELSE IF Includes(err.message, "Blockhash not found")
              THEN "Transaction expired. Please try again."
         ELSE IF Includes(err.message, "Insufficient funds")
              THEN "Insufficient SOL balance for transaction."
         ELSE err.message)

\* page.tsx initializeConfig, catch: err instanceof Error ? err.message : String(err)
initializeConfig_catch(err) ==
    "[x] Failed to init config: " \o err.message

\* A catch that writes one text for whatever was thrown.
CatchStatus_generic(c, h, err) ==
    IF h = "initializeConfig" THEN "[x] Failed to init config: Unknown error"
    ELSE "[x] Failed: Unknown error"

CatchStatus(c, h, err) ==
    IF h = "initializeConfig" THEN initializeConfig_catch(err)
    ELSE IF c = "page" THEN page_handleDeposit_catch(err)
    ELSE handleDeposit_catch(err)

\* The status written right before fetch(...).
FetchingStatus(c, h) ==
    IF h = "initializeConfig" THEN "Fetching init config instruction..."
    ELSE IF c = "page" THEN "Fetching deposit instruction..."
    ELSE "Uploading file & fetching deposit instruction..."

\* if (!res.ok): errorData.error || "Unknown backend error" ("Unknown error"
\* in initializeConfig)
BackendErrorStatus(h, body) ==
    "[x] Backend error: " \o
        (IF body.error # "" THEN body.error
         ELSE IF h = "initializeConfig" THEN "Unknown error"
         ELSE "Unknown backend error")

\* The empty response reported like a caught error.
NoInstructionStatus_asFailure(h) == "[x] Failed: Unknown error"

NoInstructionStatus(h) ==
    IF h = "initializeConfig" THEN "[x] No instructions received from backend"
    ELSE "[x] No instruction data received from backend"

BuildingStatus == "Building transaction..."
SigningStatus == "Signing and sending..."
ConfirmingStatus == "Confirming transaction..."

\* A progress write that is left out.
Progress_unwritten(h, text, current) == current

\* The status after a progress write of handleDeposit; initializeConfig
\* writes none between its fetch and its end.
Progress(h, text, current) ==
    IF h = "initializeConfig" THEN current ELSE text

\* A success text without the signature.
ConfirmedStatus_noSignature(h, signature) ==
    IF h = "initializeConfig" THEN "[v] Config initialized: "
    ELSE "[v] Transaction confirmed: "

ConfirmedStatus(h, signature) ==
    IF h = "initializeConfig" THEN "[v] Config initialized: " \o signature
    ELSE "[v] Transaction confirmed: " \o signature

-----------------------------------------------------------------------------
(* The rendered buttons                                                    *)

\* The buttons without isLoading in their disabled attribute.
ButtonDisabled_ignoresLoading ==
    \/ wallet.publicKey = NoKey
    \/ (component = "part_001" /\ ~file)

\* part_001: disabled={!wallet.publicKey || isLoading || !file}
\* page.tsx: disabled={!wallet.publicKey || isLoading} on both buttons
ButtonDisabled ==
    \/ wallet.publicKey = NoKey
    \/ isLoading
    \/ (component = "part_001" /\ ~file)

-----------------------------------------------------------------------------
(* Runs                                                                    *)

\* An external call as it is made: the status shown at that moment and the
\* argument that matters (the duration sent, the blockhash used); result and
\* value are filled in when the call settles.
Call(op, st, arg) ==
    [op |-> op, status |-> st, arg |-> arg, result |-> "pending", value |-> 0]

SetResult(calls, result) == [calls EXCEPT ![Len(calls)].result = result]

SetValue(calls, result, value) ==
    [calls EXCEPT ![Len(calls)].result = result, ![Len(calls)].value = value]

\* The duration field of the request body: part_001 sends
\* String(durationDays * 86400), page.tsx sends 30, initializeConfig none.
SecondsPerDay == 86400

Duration(c, h) ==
    IF h = "initializeConfig" THEN 0
    ELSE IF c = "page" THEN 30
    ELSE durationDays * SecondsPerDay

\* The blockhash confirmTransaction is given: handleDeposit passes
\* latestBlockhash.blockhash, initializeConfig passes the signature alone.
ConfirmBlockhash(h, latestBlockhash) ==
    IF h = "initializeConfig" THEN 0 ELSE latestBlockhash

NewRun(h, st) ==
    [handler |-> h, pc |-> "fetch", wallet |-> wallet, res |-> NoResponse,
     instructions |-> <<>>, latestBlockhash |-> 0, depositIx |-> <<>>, tx |-> NoTx,
     signature |-> "",
     calls |-> <<Call("fetch", st, Duration(component, h))>>]

\* What stays of a run once it has ended: how it ended, at which stage it
\* failed, the last status it wrote and the calls it made.
Ended(run, st, outcome, stage, result, thrown) ==
    [handler |-> run.handler, outcome |-> outcome, failedAt |-> stage,
     final |-> st, calls |-> SetResult(run.calls, result), thrown |-> thrown]

RemoveAt(seq, i) == SubSeq(seq, 1, i - 1) \o SubSeq(seq, i + 1, Len(seq))

\* setIsLoading(true); setStatus(...); try { ... await fetch(...)
Start(h) ==
    /\ Len(runs) < MaxRuns
    /\ isLoading' = TRUE
    /\ status' = FetchingStatus(component, h)
    /\ runs' = Append(runs, NewRun(h, FetchingStatus(component, h)))
    /\ UNCHANGED <<component, wallet, file, durationDays, ended, blockhashes>>

\* A guard of a handler fails: setStatus(text); return
Refuse(text) ==
    /\ status' = text
    /\ UNCHANGED <<component, wallet, file, durationDays, isLoading, runs, ended,
                   blockhashes>>

\* A run that leaves without a finally block: isLoading stays as it is.
Leave_loadingKept(r, st, outcome, stage, result, thrown) ==
    /\ status' = st
    /\ isLoading' = isLoading
    /\ runs' = RemoveAt(runs, r)
    /\ ended' = <<Ended(runs[r], st, outcome, stage, result, thrown)>>

\* The run leaves its try block: the last status is written, the finally
\* block resets isLoading, and the run's locals are gone.
Leave(r, st, outcome, stage, result, thrown) ==
    /\ status' = st
    /\ isLoading' = FALSE
    /\ runs' = RemoveAt(runs, r)
    /\ ended' = <<Ended(runs[r], st, outcome, stage, result, thrown)>>

\* return inside the try block, or its end
Exit(r, st, outcome, stage, result) ==
    Leave(r, st, outcome, stage, result, NoThrow)

\* catch (err) { setStatus(...) } finally { setIsLoading(false) }
Catch(r, err, stage, result) ==
    Leave(r, CatchStatus(component, runs[r].handler, err), "failed", stage, result, err)

\* The same catch, reached by a throw between the arrival of the blockhash
\* and the next await: the getLatestBlockhash call had returned it.
CatchBuilding(r, err, stage, blockhash) ==
    /\ status' = CatchStatus(component, runs[r].handler, err)
    /\ isLoading' = FALSE
    /\ runs' = RemoveAt(runs, r)
    /\ ended' = <<Ended([runs[r] EXCEPT !.calls = SetValue(@, "ok", blockhash)],
                       status', "failed", stage, "ok", err)>>

-----------------------------------------------------------------------------
(* parseInt                                                                *)

NaN == [nan |-> TRUE, n |-> 0]
Number(n) == [nan |-> FALSE, n |-> n]

Digits == "0123456789"
IsDigit(c) == \E d \in 0..9 : SubSeq(Digits, d + 1, d + 1) = c
DigitValue(c) == CHOOSE d \in 0..9 : SubSeq(Digits, d + 1, d + 1) = c

FirstChar(s) == SubSeq(s, 1, 1)
Rest(s) == SubSeq(s, 2, Len(s))

\* The value of the longest prefix of digits of s, continuing from acc.
RECURSIVE DigitRun(_, _)
DigitRun(s, acc) ==
    IF Len(s) = 0 \/ ~IsDigit(FirstChar(s)) THEN acc
    ELSE DigitRun(Rest(s), 10 * acc + DigitValue(FirstChar(s)))

\* parseInt(s): leading blanks, an optional sign, then digits; NaN without a digit.
RECURSIVE parseInt(_)
parseInt(s) ==
    IF Len(s) = 0 THEN NaN
    ELSE IF FirstChar(s) = " " THEN parseInt(Rest(s))
    ELSE LET neg == FirstChar(s) = "-"
             body == IF FirstChar(s) \in {"-", "+"} THEN Rest(s) ELSE s
         IN IF Len(body) = 0 \/ ~IsDigit(FirstChar(body)) THEN NaN
            ELSE Number(IF neg THEN 0 - DigitRun(body, 0) ELSE DigitRun(body, 0))

\* What the duration input is drawn to hold.
DurationInputs == {"", "0", "-3", "2.9"}

-----------------------------------------------------------------------------
(* The component                                                           *)

Init ==
    /\ component \in {"part_001", "page"}
    /\ wallet = [publicKey |-> NoKey, signTransaction |-> FALSE]
    /\ file = FALSE
    /\ durationDays = 7
    /\ status = ""
    /\ isLoading = FALSE
    /\ runs = <<>>
    /\ ended = <<>>
    /\ blockhashes = 0

\* useWallet() hands the component a new wallet state.
useWallet ==
    /\ \E w \in Wallets \ {wallet} : wallet' = w
    /\ UNCHANGED <<component, file, durationDays, status, isLoading, runs, ended,
                   blockhashes>>

\* if (e.target.files && e.target.files.length > 0) setFile(e.target.files[0])
handleFileChange ==
    /\ component = "part_001"
    /\ \E length \in {0, 1} : file' = IF length > 0 THEN TRUE ELSE file
    /\ UNCHANGED <<component, wallet, durationDays, status, isLoading, runs, ended,
                   blockhashes>>

\* const days = parseInt(value); if (!isNaN(days) && days > 0) setDurationDays(days)
\* A duration check that lets zero through.
AcceptsDays_zero(days) == ~days.nan /\ days.n >= 0

\* if (!isNaN(days) && days > 0)
AcceptsDays(days) == ~days.nan /\ days.n > 0

handleDurationChange ==
    /\ component = "part_001"
    /\ \E value \in DurationInputs :
          LET days == parseInt(value)
          IN durationDays' = IF AcceptsDays(days) THEN days.n ELSE durationDays
    /\ UNCHANGED <<component, wallet, file, status, isLoading, runs, ended, blockhashes>>

\* handleDeposit without its file guard.
handleDeposit_noFileGuard ==
    /\ component = "part_001"
    /\ IF wallet.publicKey = NoKey THEN Refuse("Connect your wallet first.")
       ELSE IF durationDays < 1 THEN Refuse("Duration must be at least 1 day.")
       ELSE Start("handleDeposit")

\* part_001 handleDeposit, up to its first await
handleDeposit ==
    /\ component = "part_001"
    /\ IF wallet.publicKey = NoKey THEN Refuse("Connect your wallet first.")
       ELSE IF ~file THEN Refuse("Please select a file first.")
       ELSE IF durationDays < 1 THEN Refuse("Duration must be at least 1 day.")
       ELSE Start("handleDeposit")

\* page.tsx handleDeposit, up to its first await
page_handleDeposit ==
    /\ component = "page"
    /\ IF wallet.publicKey = NoKey THEN Refuse("Connect your wallet first.")
       ELSE Start("handleDeposit")

\* page.tsx initializeConfig, up to its first await
initializeConfig ==
    /\ component = "page"
    /\ IF wallet.publicKey = NoKey \/ ~wallet.signTransaction
       THEN Refuse("Connect wallet first to initialize config")
       ELSE Start("initializeConfig")

\* A click reaches a handler only through a button that is not disabled.
onClick_handleDeposit == ~ButtonDisabled /\ handleDeposit
onClick_page_handleDeposit == ~ButtonDisabled /\ page_handleDeposit
onClick_initializeConfig == ~ButtonDisabled /\ initializeConfig

-----------------------------------------------------------------------------
(* The continuations of a run, one per await                               *)

\* await fetch(...) settles; if (!res.ok) the error body is read next,
\* otherwise the instructions are.
fetch(r) ==
    /\ runs[r].pc = "fetch"
    /\ \/ \E err \in Thrown : Catch(r, err, "fetch", "threw")
       \/ \E res \in Responses :
            /\ runs' = [runs EXCEPT ![r] =
                          [@ EXCEPT !.pc = IF res.ok THEN "json" ELSE "errorJson",
                                    !.res = res,
                                    !.calls = SetResult(@, IF res.ok THEN "responded"
                                                                     ELSE "notok")]]
            /\ UNCHANGED <<status, isLoading, ended>>
    /\ UNCHANGED <<component, wallet, file, durationDays, blockhashes>>

\* const errorData = await res.json(); setStatus(backend error); return
errorJson(r) ==
    /\ runs[r].pc = "errorJson"
    /\ IF ~runs[r].res.body.valid
       THEN Catch(r, JsonSyntaxError, "fetch", "notok")
       ELSE Exit(r, BackendErrorStatus(runs[r].handler, runs[r].res.body),
                 "backendError", "fetch", "notok")
    /\ UNCHANGED <<component, wallet, file, durationDays, blockhashes>>

\* const { instructions } = await res.json(); the empty check; then
\* setStatus("Building transaction...") and connection.getLatestBlockhash
json(r) ==
    /\ runs[r].pc = "json"
    /\ LET body == runs[r].res.body
           h == runs[r].handler
       IN IF ~body.valid THEN Catch(r, JsonSyntaxError, "fetch", "threw")
          ELSE IF EmptyInstructions(body)
          THEN Exit(r, NoInstructionStatus(h), "empty", "fetch", FetchOutcome(body))
          ELSE /\ status' = Progress(h, BuildingStatus, status)
               /\ runs' = [runs EXCEPT ![r] =
                     [@ EXCEPT !.pc = "getLatestBlockhash",
                               !.instructions = body.instructions,
                               !.calls = Append(SetResult(@, FetchOutcome(body)),
                                                Call("getLatestBlockhash", status', 0))]]
               /\ UNCHANGED <<isLoading, ended>>
    /\ UNCHANGED <<component, wallet, file, durationDays, blockhashes>>

\* await connection.getLatestBlockhash settles; the instruction and the
\* transaction are built; setStatus("Signing and sending...");
\* wallet.signTransaction!(tx) is called
getLatestBlockhash(r) ==
    /\ runs[r].pc = "getLatestBlockhash"
    /\ \/ /\ \E err \in Thrown : Catch(r, err, "getLatestBlockhash", "threw")
          /\ UNCHANGED blockhashes
       \/ LET h == runs[r].handler
              ins == runs[r].instructions
              blockhash == blockhashes + 1
          IN /\ blockhashes < MaxBlockhashes
             /\ blockhashes' = blockhash
             /\ IF BuildThrows(ins)
                THEN CatchBuilding(r, BuildError(ins), "build", blockhash)
                ELSE IF ~runs[r].wallet.signTransaction
                THEN CatchBuilding(r, NotAFunction, "signTransaction", blockhash)
                ELSE /\ status' = Progress(h, SigningStatus, status)
                     /\ runs' = [runs EXCEPT ![r] =
                           [@ EXCEPT !.pc = "signTransaction",
                                     !.latestBlockhash = blockhash,
                                     !.depositIx =
                                         <<TransactionInstruction(DepositDescriptor(ins))>>,
                                     !.tx = Transaction(
                                         TransactionInstruction(DepositDescriptor(ins)),
                                         blockhash, runs[r].wallet.publicKey),
                                     !.calls = Append(SetValue(@, "ok", blockhash),
                                                      Call("signTransaction", status',
                                                           Transaction(
                                                             TransactionInstruction(DepositDescriptor(ins)),
                                                             blockhash, runs[r].wallet.publicKey
                                                           ).recentBlockhash))]]
                     /\ UNCHANGED <<isLoading, ended>>
    /\ UNCHANGED <<component, wallet, file, durationDays>>

\* await wallet.signTransaction(tx) settles; signedTx.serialize(), which
\* throws on a transaction the wallet returned without its signature;
\* connection.sendRawTransaction
signTransaction(r) ==
    /\ runs[r].pc = "signTransaction"
    /\ \/ \E err \in Thrown : Catch(r, err, "signTransaction", "threw")
       \/ Catch(r, SerializeError, "serialize", "unsigned")
       \/ /\ runs' = [runs EXCEPT ![r] =
                  [@ EXCEPT !.pc = "sendRawTransaction",
                            !.calls = Append(SetResult(@, "ok"),
                                             Call("sendRawTransaction", status,
                                                  runs[r].tx.recentBlockhash))]]
          /\ UNCHANGED <<status, isLoading, ended>>
    /\ UNCHANGED <<component, wallet, file, durationDays, blockhashes>>

\* A broadcast that is sent again after it failed.
sendRawTransaction_retries(r) ==
    /\ runs[r].pc = "sendRawTransaction"
    /\ \/ /\ runs' = [runs EXCEPT ![r] =
                  [@ EXCEPT !.calls = Append(SetResult(@, "threw"),
                                             Call("sendRawTransaction", status,
                                                  runs[r].tx.recentBlockhash))]]
          /\ UNCHANGED <<status, isLoading, ended>>
       \/ \E signature \in Signatures :
            /\ status' = Progress(runs[r].handler, ConfirmingStatus, status)
            /\ runs' = [runs EXCEPT ![r] =
                  [@ EXCEPT !.pc = "confirmTransaction",
                            !.signature = signature,
                            !.calls = Append(SetResult(@, "ok"),
                                             Call("confirmTransaction", status',
                                                  ConfirmBlockhash(runs[r].handler,
                                                      runs[r].latestBlockhash)))]]
            /\ UNCHANGED <<isLoading, ended>>
    /\ UNCHANGED <<component, wallet, file, durationDays, blockhashes>>

\* await connection.sendRawTransaction settles;
\* setStatus("Confirming transaction..."); connection.confirmTransaction
sendRawTransaction(r) ==
    /\ runs[r].pc = "sendRawTransaction"
    /\ \/ \E err \in Thrown : Catch(r, err, "sendRawTransaction", "threw")
       \/ \E signature \in Signatures :
            /\ status' = Progress(runs[r].handler, ConfirmingStatus, status)
            /\ runs' = [runs EXCEPT ![r] =
                  [@ EXCEPT !.pc = "confirmTransaction",
                            !.signature = signature,
                            !.calls = Append(SetResult(@, "ok"),
                                             Call("confirmTransaction", status',
                                                  ConfirmBlockhash(runs[r].handler,
                                                      runs[r].latestBlockhash)))]]
            /\ UNCHANGED <<isLoading, ended>>
    /\ UNCHANGED <<component, wallet, file, durationDays, blockhashes>>

\* await connection.confirmTransaction settles; its value is not read;
\* setStatus(confirmed)
confirmTransaction(r) ==
    /\ runs[r].pc = "confirmTransaction"
    /\ \/ \E err \in Thrown : Catch(r, err, "confirmTransaction", "threw")
       \/ Catch(r, ExpiredError(runs[r].handler, runs[r].signature),
                "confirmTransaction", "expired")
       \/ \E err \in ConfirmErrs :
            Exit(r, ConfirmedStatus(runs[r].handler, runs[r].signature),
                 "confirmed", "", IF err = "" THEN "ok" ELSE "rejected")
    /\ UNCHANGED <<component, wallet, file, durationDays, blockhashes>>

Runs == 1..Len(runs)

fetch_settles == \E r \in Runs : fetch(r)
errorJson_settles == \E r \in Runs : errorJson(r)
json_settles == \E r \in Runs : json(r)
getLatestBlockhash_settles == \E r \in Runs : getLatestBlockhash(r)
signTransaction_settles == \E r \in Runs : signTransaction(r)
sendRawTransaction_settles == \E r \in Runs : sendRawTransaction(r)
confirmTransaction_settles == \E r \in Runs : confirmTransaction(r)

Environment ==
    \/ useWallet
    \/ handleFileChange
    \/ handleDurationChange

\* A session of the page: handlers start from clicks on the rendered buttons.
Next ==
    \/ Environment
    \/ onClick_handleDeposit
    \/ onClick_page_handleDeposit
    \/ onClick_initializeConfig
    \/ fetch_settles
    \/ errorJson_settles
    \/ json_settles
    \/ getLatestBlockhash_settles
    \/ signTransaction_settles
    \/ sendRawTransaction_settles
    \/ confirmTransaction_settles

Spec == Init /\ [][Next]_vars

\* The handlers called as functions, whatever the buttons show, each call
\* made once the call before it has returned and its run has ended.
Settled == runs = <<>>

call_handleDeposit == Settled /\ handleDeposit
call_page_handleDeposit == Settled /\ page_handleDeposit
call_initializeConfig == Settled /\ initializeConfig

NextInvoke ==
    \/ Environment
    \/ call_handleDeposit
    \/ call_page_handleDeposit
    \/ call_initializeConfig
    \/ fetch_settles
    \/ errorJson_settles
    \/ json_settles
    \/ getLatestBlockhash_settles
    \/ signTransaction_settles
    \/ sendRawTransaction_settles
    \/ confirmTransaction_settles

SpecInvoke == Init /\ [][NextInvoke]_vars

\* Every awaited call eventually returns or throws: the continuation of a
\* pending await is eventually run.
Fairness ==
    /\ WF_vars(fetch_settles)
    /\ WF_vars(errorJson_settles)
    /\ WF_vars(json_settles)
    /\ WF_vars(getLatestBlockhash_settles)
    /\ WF_vars(signTransaction_settles)
    /\ WF_vars(sendRawTransaction_settles)
    /\ WF_vars(confirmTransaction_settles)

SpecFair == Init /\ [][Next]_vars /\ Fairness

\* The catch of page.tsx's handleDeposit on its own: a run is waiting for
\* its fetch, which rejects with a value whose message is put together from
\* the texts the catch looks for and texts it does not.
MaxFragments == 3

CatchFragments ==
    {"Transaction simulation failed", "Blockhash not found", "Insufficient funds",
     "insufficient funds", "boom"}

RECURSIVE Joined(_)
Joined(fragments) ==
    IF Len(fragments) = 1 THEN fragments[1]
    ELSE fragments[1] \o ": " \o Joined(Tail(fragments))

CaughtMessages ==
    {Joined(q) : q \in UNION {[1..n -> CatchFragments] : n \in 1..MaxFragments}}

CaughtValues == [isError : BOOLEAN, message : CaughtMessages]

InitCatch ==
    /\ component = "page"
    /\ wallet = [publicKey |-> WalletKey, signTransaction |-> TRUE]
    /\ file = FALSE
    /\ durationDays = 7
    /\ status = FetchingStatus("page", "handleDeposit")
    /\ isLoading = TRUE
    /\ runs = <<NewRun("handleDeposit", status)>>
    /\ ended = <<>>
    /\ blockhashes = 0

fetch_rejects ==
    /\ \E r \in Runs :
          /\ runs[r].pc = "fetch"
          /\ \E err \in CaughtValues : Catch(r, err, "fetch", "threw")
    /\ UNCHANGED <<component, wallet, file, durationDays, blockhashes>>

NextCatch == fetch_rejects

SpecCatch == InitCatch /\ [][NextCatch]_vars

-----------------------------------------------------------------------------
(* Properties                                                              *)

PipelineOrder ==
    <<"fetch", "getLatestBlockhash", "signTransaction", "sendRawTransaction",
      "confirmTransaction">>

\* The calls are a prefix of the pipeline order and every call but the last
\* one returned successfully.
CallsInOrder(calls) ==
    /\ Len(calls) <= Len(PipelineOrder)
    /\ \A i \in 1..Len(calls) :
          /\ calls[i].op = PipelineOrder[i]
          /\ (i < Len(calls) => calls[i].result = "ok")

\* C1: in every run of handleDeposit the external calls occur only in the
\* order fetch, getLatestBlockhash, signTransaction, sendRawTransaction,
\* confirmTransaction, each made only after the one before it returned
\* successfully; after a failed call (non-ok response, empty instruction
\* list, thrown error) the run makes no further call.
C1_CallsInPipelineOrder ==
    /\ \A r \in Runs :
          runs[r].handler = "handleDeposit" => CallsInOrder(runs[r].calls)
    /\ \A i \in 1..Len(ended) :
          ended[i].handler = "handleDeposit" => CallsInOrder(ended[i].calls)

\* A run of handleDeposit made all five calls and the last one threw.
C1_Witness ==
    \E i \in 1..Len(ended) :
        /\ ended[i].handler = "handleDeposit"
        /\ Len(ended[i].calls) = 5
        /\ ended[i].calls[5].result = "threw"

\* C2: at most one run (of handleDeposit or initializeConfig) is in flight
\* at any time of a session driven by button clicks.
C2_SingleRunInFlight == Len(runs) <= 1

\* A run is in flight while the wallet is connected and a file is selected:
\* only isLoading keeps the buttons disabled.
C2_Witness ==
    /\ Len(runs) = 1
    /\ isLoading
    /\ wallet.publicKey # NoKey
    /\ (component = "part_001" => file)

\* C3: a run ends Confirmed only when the confirmation reported no on-chain
\* error; when the confirmation result carries an on-chain error the run
\* ends Failed and its status carries that error.
C3_ConfirmedOnlyWithoutChainError ==
    \A i \in 1..Len(ended) :
        LET e == ended[i]
        IN /\ (e.outcome = "confirmed" => e.calls[Len(e.calls)].result = "ok")
           /\ (e.calls[Len(e.calls)].result = "rejected" =>
                 /\ e.outcome = "failed"
                 /\ Includes(e.final, "InstructionError"))

\* C4: in every run the latest blockhash is requested only after the
\* instruction descriptors have been decoded, and it is obtained before the
\* wallet is asked to sign.
C4_BlockhashAfterDecoding ==
    \A r \in Runs :
        /\ (\E i \in 1..Len(runs[r].calls) : runs[r].calls[i].op = "getLatestBlockhash")
              => runs[r].depositIx # <<>>
        /\ (\E i \in 1..Len(runs[r].calls) : runs[r].calls[i].op = "signTransaction")
              => runs[r].latestBlockhash # 0

\* The run has built its transaction and holds it.
Built(r) == runs[r].pc \in {"signTransaction", "sendRawTransaction", "confirmTransaction"}

\* The instruction ix is the descriptor d decoded: same program, same
\* accounts with their flags in the same order, the payload's base64 text
\* decoded.
Decodes(ix, d) ==
    /\ ix.programId.base58 = d.programId
    /\ Len(ix.keys) = Len(d.keys)
    /\ \A k \in 1..Len(d.keys) :
          /\ ix.keys[k].pubkey.base58 = d.keys[k].pubkey
          /\ ix.keys[k].isSigner = d.keys[k].isSigner
          /\ ix.keys[k].isWritable = d.keys[k].isWritable
    /\ ix.data = SelectSeq(d.data, LAMBDA c : c \in Base64Alphabet)

\* C5 as stated: the built transaction contains exactly the n returned
\* descriptors, in the order returned.
C5_AllInstructionsInOrder ==
    \A r \in Runs :
        Built(r) =>
            /\ Len(runs[r].tx.instructions) = Len(runs[r].instructions)
            /\ \A i \in 1..Len(runs[r].instructions) :
                  Decodes(runs[r].tx.instructions[i], runs[r].instructions[i])

\* C5, amended: when the backend returns n >= 1 descriptors the built
\* transaction contains exactly one instruction, the first returned
\* descriptor decoded; the descriptors after the first are not part of it.
C5_FirstInstructionOnly ==
    \A r \in Runs :
        Built(r) =>
            /\ Len(runs[r].instructions) >= 1
            /\ Len(runs[r].tx.instructions) = 1
            /\ Decodes(runs[r].tx.instructions[1], runs[r].instructions[1])

\* A transaction was built from a response of two different descriptors.
C5_Witness ==
    \E r \in Runs :
        /\ Built(r)
        /\ Len(runs[r].instructions) = 2
        /\ runs[r].instructions[1] # runs[r].instructions[2]

ValidationMessages ==
    {"Connect your wallet first.", "Please select a file first.",
     "Connect wallet first to initialize config"}

\* C6: a handler called while the wallet has no public key, or (part_001)
\* while no file is selected, starts no run and makes no request, leaves
\* isLoading false and sets the status to a validation message; a run starts
\* only with a connected wallet and, in part_001, a selected file.
C6_GuardsKeepIdle ==
    [][ /\ ( /\ call_handleDeposit \/ call_page_handleDeposit \/ call_initializeConfig
             /\ wallet.publicKey = NoKey \/ (component = "part_001" /\ ~file) )
           => /\ runs' = runs
              /\ blockhashes' = blockhashes
              /\ isLoading' = isLoading
              /\ ~isLoading'
              /\ status' \in ValidationMessages
        /\ Len(runs') > Len(runs)
           => /\ wallet.publicKey # NoKey
              /\ component = "part_001" => file ]_vars

\* handleDeposit of part_001 was called without a file and refused.
C6_Witness ==
    /\ component = "part_001"
    /\ status = "Please select a file first."
    /\ wallet.publicKey # NoKey
    /\ ~file
    /\ runs = <<>>
    /\ ~isLoading

\* The progress texts that announce each call of handleDeposit.
Announcements(op) ==
    CASE op = "fetch" -> {"Uploading file & fetching deposit instruction...",
                          "Fetching deposit instruction..."}
      [] op = "getLatestBlockhash" -> {"Building transaction..."}
      [] op \in {"signTransaction", "sendRawTransaction"} -> {"Signing and sending..."}
      [] op = "confirmTransaction" -> {"Confirming transaction..."}

Announced(calls) ==
    \A i \in 1..Len(calls) : calls[i].status \in Announcements(calls[i].op)

\* C7: in a run of handleDeposit every external call (fetch, blockhash
\* request, signature request, broadcast, confirmation wait) is made with
\* the status already set to the progress text announcing its stage.
C7_StatusBeforeCall ==
    /\ \A r \in Runs : runs[r].handler = "handleDeposit" => Announced(runs[r].calls)
    /\ \A i \in 1..Len(ended) :
          ended[i].handler = "handleDeposit" => Announced(ended[i].calls)

\* A run of handleDeposit got as far as the confirmation wait.
C7_Witness ==
    \E r \in Runs :
        /\ runs[r].handler = "handleDeposit"
        /\ runs[r].pc = "confirmTransaction"
        /\ Len(runs[r].calls) = 5

\* C8: the pending calls of a run are each announced by a progress text of
\* their own, so the status shown tells which call the run is waiting for.
C8_DistinctProgressPerStage ==
    \A r \in Runs :
        \A i, j \in 1..Len(runs[r].calls) :
            i # j => runs[r].calls[i].status # runs[r].calls[j].status

EmptyResponseMessages ==
    {"[x] No instruction data received from backend",
     "[x] No instructions received from backend"}

\* C9: a success response without instructions ends the run at once, with
\* the status of the empty response, which is neither the backend-error nor
\* the failure status, and with the fetch as the only call made.
C9_EmptyResponseEndsRun ==
    /\ \A r \in Runs :
          \A i \in 1..Len(runs[r].calls) : runs[r].calls[i].result # "empty"
    /\ \A i \in 1..Len(ended) :
          ended[i].calls[1].result = "empty" =>
              /\ Len(ended[i].calls) = 1
              /\ ended[i].outcome = "empty"
              /\ ended[i].final \in EmptyResponseMessages
              /\ ~Includes(ended[i].final, "Backend error")
              /\ ~Includes(ended[i].final, "Failed")
    /\ \A i \in 1..Len(ended) :
          ended[i].outcome \in {"failed", "backendError"} =>
              ended[i].final \notin EmptyResponseMessages

\* A run ended on a success response without instructions.
C9_Witness ==
    \E i \in 1..Len(ended) :
        /\ ended[i].calls[1].result = "empty"
        /\ status = ended[i].final

Made(e, op) == \E i \in 1..Len(e.calls) : e.calls[i].op = op

\* C10: a run whose signature request fails, or whose wallet cannot sign,
\* ends Failed without calling sendRawTransaction, and its status differs
\* from the status of a run whose broadcast failed.
C10_SignErrorDistinctFromBroadcast ==
    [][ /\ \A i \in 1..Len(ended') :
              ended'[i].failedAt = "signTransaction" =>
                  /\ ended'[i].outcome = "failed"
                  /\ ~Made(ended'[i], "sendRawTransaction")
        /\ \A i \in 1..Len(ended), j \in 1..Len(ended') :
              {ended[i].failedAt, ended'[j].failedAt}
                  = {"signTransaction", "sendRawTransaction"}
              => ended[i].final # ended'[j].final ]_vars

\* The blockhash the run's own getLatestBlockhash call returned (0: none yet).
OwnBlockhash(calls) ==
    IF Len(calls) >= 2 /\ calls[2].result = "ok" THEN calls[2].value ELSE 0

\* Every blockhash the calls of handleDeposit carry is the one its own
\* request returned.
UsesOwnBlockhash(calls) ==
    \A i \in 1..Len(calls) :
        calls[i].op \in {"signTransaction", "sendRawTransaction", "confirmTransaction"}
            => /\ OwnBlockhash(calls) # 0
               /\ calls[i].arg = OwnBlockhash(calls)

\* C11: every run of handleDeposit that builds a transaction has requested
\* a blockhash of its own, and the transaction it signs and sends and the
\* confirmation it waits for use that blockhash only; it is never the
\* blockhash of the run that ended before it, so two consecutive runs make
\* two getLatestBlockhash requests.
C11_FreshBlockhashPerRun ==
    /\ \A r \in Runs :
          runs[r].handler = "handleDeposit" =>
              /\ UsesOwnBlockhash(runs[r].calls)
              /\ Built(r) =>
                    /\ runs[r].tx.recentBlockhash = OwnBlockhash(runs[r].calls)
                    /\ runs[r].latestBlockhash = OwnBlockhash(runs[r].calls)
                    /\ \A i \in 1..Len(ended) :
                          runs[r].tx.recentBlockhash # OwnBlockhash(ended[i].calls)
    /\ \A i \in 1..Len(ended) :
          ended[i].handler = "handleDeposit" => UsesOwnBlockhash(ended[i].calls)

\* A run ended Failed after it had obtained a blockhash, and the run started
\* after it waits for the confirmation of its own transaction.
C11_Witness ==
    \E r \in Runs, i \in 1..Len(ended) :
        /\ ended[i].handler = "handleDeposit"
        /\ ended[i].outcome = "failed"
        /\ OwnBlockhash(ended[i].calls) # 0
        /\ runs[r].handler = "handleDeposit"
        /\ runs[r].pc = "confirmTransaction"

\* The positions of the calls of op in a call log.
CallsOf(calls, op) == {i \in 1..Len(calls) : calls[i].op = op}

\* At most one broadcast, exactly one once the wallet has signed, made after
\* this run's own fetch and signature request; no call is made twice.
SubmitsOnce(calls) ==
    /\ Cardinality(CallsOf(calls, "sendRawTransaction")) <= 1
    /\ \A op \in {PipelineOrder[k] : k \in 1..Len(PipelineOrder)} :
          Cardinality(CallsOf(calls, op)) <= 1
    /\ \A i \in CallsOf(calls, "signTransaction") :
          calls[i].result = "ok" => Cardinality(CallsOf(calls, "sendRawTransaction")) = 1
    /\ \A i \in CallsOf(calls, "sendRawTransaction") :
          /\ calls[1].op = "fetch"
          /\ \E j \in CallsOf(calls, "signTransaction") : j < i /\ calls[j].result = "ok"

\* C12: a run (of either handler) calls sendRawTransaction at most once,
\* and exactly once when its signature request succeeded; no call is
\* repeated after a failure, and a broadcast is always preceded by the
\* fetch and the signature of the same run, so another submission takes a
\* new run.
C12_AtMostOneSubmission ==
    /\ \A r \in Runs : SubmitsOnce(runs[r].calls)
    /\ \A i \in 1..Len(ended) : SubmitsOnce(ended[i].calls)

\* A run's broadcast failed and the run ended Failed with that one broadcast.
C12_Witness ==
    \E i \in 1..Len(ended) :
        /\ ended[i].outcome = "failed"
        /\ ended[i].failedAt = "sendRawTransaction"
        /\ Cardinality(CallsOf(ended[i].calls, "sendRawTransaction")) = 1
        /\ ended[i].calls[Len(ended[i].calls)].result = "threw"

\* The result of the last call a run made.
LastResult(e) == e.calls[Len(e.calls)].result

UnknownBackendErrors == {"Unknown backend error", "Unknown error"}

\* C14: a run whose fetch got a non-success response ends with the
\* backend-error status: it carries the error message of the response body
\* when the body parses and has one, and the generic unknown-backend-error
\* text otherwise, also when the body cannot be parsed; it is never the
\* failure status.
C14_BackendErrorStatus ==
    [][ \A r \in Runs :
          (runs[r].pc = "errorJson" /\ runs' # runs) =>
              LET body == runs[r].res.body
                  e == ended'[1]
              IN /\ e.outcome = "backendError"
                 /\ Len(e.calls) = 1
                 /\ ~Includes(e.final, "Failed")
                 /\ IF body.valid /\ body.error # ""
                    THEN e.final = "[x] Backend error: " \o body.error
                    ELSE \E text \in UnknownBackendErrors :
                            e.final = "[x] Backend error: " \o text ]_vars

\* C15: a run that fails ends Failed with a status that carries what the
\* failing stage threw, also when the thrown value is not an Error; the
\* status is never the generic "Unknown error".
C15_FailureKeepsItsError ==
    \A i \in 1..Len(ended) :
        ended[i].outcome = "failed" =>
            /\ Includes(ended[i].final, ended[i].thrown.message)
            /\ ~Includes(ended[i].final, "Unknown error")

\* A descriptor is well formed when its program and account addresses are
\* addresses and its payload is base64 text.
WellFormed(d) ==
    /\ IsAddress(d.programId)
    /\ \A k \in 1..Len(d.keys) : IsAddress(d.keys[k].pubkey)
    /\ \A k \in 1..Len(d.data) : d.data[k] \in Base64Alphabet

\* C16: a run that received a descriptor with an invalid program or account
\* address, or with a payload that is not base64, asks for no signature and
\* broadcasts nothing, and when it ends it ends Failed; the transaction a
\* run holds was built from well-formed descriptors only.
C16_MalformedDescriptorFails ==
    /\ \A r \in Runs :
          (\E k \in 1..Len(runs[r].instructions) : ~WellFormed(runs[r].instructions[k]))
              => /\ ~Built(r)
                 /\ CallsOf(runs[r].calls, "signTransaction") = {}
                 /\ CallsOf(runs[r].calls, "sendRawTransaction") = {}
    /\ \A i \in 1..Len(ended) :
          ended[i].failedAt = "build" =>
              /\ ended[i].outcome = "failed"
              /\ CallsOf(ended[i].calls, "signTransaction") = {}

\* The statuses a run can end with: a success text with a signature, or a
\* text marked as a failure.
TerminalStatus(e) ==
    \/ /\ e.outcome = "confirmed"
       /\ \E signature \in Signatures :
             /\ signature # ""
             /\ e.final = ConfirmedStatus(e.handler, signature)
             /\ Includes(e.final, signature)
    \/ /\ e.outcome \in {"failed", "backendError", "empty"}
       /\ SubSeq(e.final, 1, 4) = "[x] "

\* All five calls of the run returned successfully.
AllCallsOk(e) ==
    /\ Len(e.calls) = Len(PipelineOrder)
    /\ \A i \in 1..Len(e.calls) : e.calls[i].result = "ok"

\* C17: when every awaited call eventually returns or throws, every run
\* that started eventually ends; the status it leaves is its last write and
\* is a terminal one (the success text with the signature the broadcast
\* returned, or a failure text); a run all of whose calls succeeded ends
\* Confirmed with that signature.
C17_EveryRunTerminates ==
    /\ [](runs # <<>> => <>(runs = <<>>))
    /\ [][ (runs # <<>> /\ runs' = <<>>) =>
              /\ status' = ended'[1].final
              /\ ~isLoading'
              /\ TerminalStatus(ended'[1])
              /\ ended'[1].outcome = "confirmed" =>
                    ended'[1].final = ConfirmedStatus(runs[1].handler, runs[1].signature) ]_vars
    /\ [](\A i \in 1..Len(ended) :
             AllCallsOk(ended[i]) =>
                 /\ ended[i].outcome = "confirmed"
                 /\ TerminalStatus(ended[i]))

\* A run all of whose calls succeeded has ended, and the status shows the
\* signature of its transaction.
C17_Witness ==
    /\ runs = <<>>
    /\ \E i \in 1..Len(ended) :
          /\ AllCallsOk(ended[i])
          /\ ended[i].outcome = "confirmed"
          /\ status = ended[i].final
          /\ \E signature \in Signatures : Includes(status, signature)

\* C18: isLoading is true exactly while a run is in flight: it becomes true
\* in the step that starts the run and false in the step that ends it, by
\* whichever exit, so once no run is in flight isLoading does not keep a
\* button disabled.
C18_LoadingWhileRunning ==
    /\ isLoading <=> runs # <<>>
    /\ (runs = <<>> /\ wallet.publicKey # NoKey /\ (component = "part_001" => file))
          => ~ButtonDisabled

\* A run ended by the return of the backend-error branch, and the button is
\* enabled again.
C18_Witness ==
    /\ runs = <<>>
    /\ \E i \in 1..Len(ended) : ended[i].outcome = "backendError"
    /\ ~isLoading
    /\ ~ButtonDisabled

\* The duration a fetch of part_001's handleDeposit was given.
DurationsSent(calls) ==
    {calls[i].arg : i \in CallsOf(calls, "fetch")}

\* C19: whatever the duration input is changed to, durationDays is an
\* integer of at least 1, so every duration part_001 sends is a positive
\* multiple of 86400 and handleDeposit never refuses with "Duration must be
\* at least 1 day.".
C19_DurationAtLeastOneDay ==
    /\ durationDays \in Nat
    /\ durationDays >= 1
    /\ status # "Duration must be at least 1 day."
    /\ component = "part_001" =>
          /\ \A r \in Runs : \A d \in DurationsSent(runs[r].calls) :
                d > 0 /\ d % SecondsPerDay = 0
          /\ \A i \in 1..Len(ended) : \A d \in DurationsSent(ended[i].calls) :
                d > 0 /\ d % SecondsPerDay = 0

\* The duration input was changed to "2.9" after rejected values, and a run
\* sent two days in seconds.
C19_Witness ==
    /\ component = "part_001"
    /\ durationDays = 2
    /\ \E r \in Runs : DurationsSent(runs[r].calls) = {2 * SecondsPerDay}

\* The status of a failed run is "[x] Failed: " followed by text.
FailedWith(e, text) == e.final = "[x] Failed: " \o text

\* C20: the catch of page.tsx's handleDeposit writes "[x] Failed: " followed
\* by: the simulation text when the Error's message contains "Transaction
\* simulation failed"; otherwise the expired text when it contains "Blockhash
\* not found"; otherwise the balance text when it contains "Insufficient
\* funds"; otherwise the message itself; and "Unknown error" when the thrown
\* value is not an Error.
C20_CatchFirstMatch ==
    \A i \in 1..Len(ended) :
        (component = "page" /\ ended[i].handler = "handleDeposit"
                            /\ ended[i].outcome = "failed") =>
            LET e == ended[i]
                m == e.thrown.message
                sim == Includes(m, "Transaction simulation failed")
                expired == Includes(m, "Blockhash not found")
                funds == Includes(m, "Insufficient funds")
            IN /\ SubSeq(e.final, 1, 12) = "[x] Failed: "
               /\ ~e.thrown.isError => FailedWith(e, "Unknown error")
               /\ (e.thrown.isError /\ sim) =>
                     FailedWith(e, "Transaction simulation failed. Check program logs for details.")
               /\ (e.thrown.isError /\ ~sim /\ expired) =>
                     FailedWith(e, "Transaction expired. Please try again.")
               /\ (e.thrown.isError /\ ~sim /\ ~expired /\ funds) =>
                     FailedWith(e, "Insufficient SOL balance for transaction.")
               /\ (e.thrown.isError /\ ~sim /\ ~expired /\ ~funds) => FailedWith(e, m)

\* An Error whose message has the blockhash text before the simulation text
\* was caught and reported as a failed simulation.
C20_Witness ==
    \E i \in 1..Len(ended) :
        /\ ended[i].thrown.isError
        /\ ended[i].thrown.message = "Blockhash not found: Transaction simulation failed"
        /\ status = "[x] Failed: Transaction simulation failed. Check program logs for details."

====
